---- MODULE Spec2Model ----
(***************************************************************************)
(* A model of the brokerage account ledger of src/output/accounts.py:      *)
(* class Account with its lock, its four mutating operations (deposit,     *)
(* withdraw, buy, sell), executed by concurrent caller threads one source  *)
(* statement at a time, and statement(), executed by a reader thread that  *)
(* takes no lock.                                                          *)
(*                                                                         *)
(* Money is modelled by integers (the source uses Python floats; the       *)
(* amounts drawn here are whole multiples of 50, on which float arithmetic *)
(* is exact).  Optional values are sequences of length 0 (None) or 1.      *)
(***************************************************************************)
EXTENDS Integers, Sequences, FiniteSets, TLC

\* ------------------------------------------------------------------ bounds
\* Callers stop invoking once the log can reach this many records.
MaxTx == 3

\* The caller threads of the mutating operations.
Threads == {"t1", "t2"}

\* ------------------------------------------------------------------ inputs
None == <<>>
Some(v) == <<v>>

\* The instants the clock read by _current_time shows, in their order.
Instants == {0, 1}
\* initial_deposit arguments of the constructor.
InitialDeposits == {-150, 0, 300}
\* amount arguments of deposit and withdraw.
Amounts == {-150, 0, 150}
\* <<symbol, quantity, price>> arguments of buy and sell: a negative
\* quantity, a quantity of 0 together with an unknown symbol and a negative
\* price, the oracle's price, a supplied price, a negative price, a symbol
\* the oracle does not know, without and with a supplied price.
Trades ==
    {<<"AAPL", -1, None>>, <<"XXX", 0, Some(-50)>>, <<"AAPL", 1, None>>,
     <<"AAPL", 2, Some(50)>>, <<"AAPL", 1, Some(-50)>>, <<"XXX", 1, None>>,
     <<"XXX", 1, Some(0)>>}
\* Symbols put to the price oracle.
Symbols == {"AAPL", "TSLA", "GOOGL", "XXX", "aapl", ""}
Notes == {None}
Providers == {None, Some("fake_provider")}

\* ------------------------------------------------------------- price oracle
\* Mutant of get_share_price: a symbol that is not listed is priced at 0.
get_share_price_lenient(symbol) ==
    CASE symbol = "AAPL" -> Some(150)
      [] symbol = "TSLA" -> Some(700)
      [] symbol = "GOOGL" -> Some(2800)
      [] OTHER -> Some(0)

\* get_share_price: the three fixed prices; Some(price), or None for the
\* KeyError path that raises UnknownSymbolError.
get_share_price(symbol) ==
    CASE symbol = "AAPL" -> Some(150)
      [] symbol = "TSLA" -> Some(700)
      [] symbol = "GOOGL" -> Some(2800)
      [] OTHER -> None

\* ------------------------------------------------------------------- state
VARIABLES
    constructed,      \* TRUE iff Account.__init__ returned without raising
    ctor_arg,         \* the initial_deposit argument given to __init__
    cash_balance,     \* self.cash_balance
    holdings,         \* self.holdings: a function on the held symbols
    initial_deposit,  \* self.initial_deposit
    transactions,     \* self.transactions
    lock,             \* self._lock: None, or Some(thread holding it)
    now,              \* the clock _current_time reads
    pc,               \* pc[t]: where caller thread t stands in its call
    op,               \* op[t]: the call thread t is executing or has finished
    local,            \* local[t]: the local variables of the call
    result,           \* result[t]: the call's outcome (record or exception)
    pre,              \* pre[t]: the account as thread t found it on acquiring the lock
    rpc,              \* where the reader stands in statement()
    rloc,             \* the reader's locals: pv, total, pl and the dict being built
    rstart,           \* len(transactions) when the reader called statement()
    ccall,            \* the query the client called last
    cres,             \* what that query returned, as the client holds it
    cacct             \* the account as it was when the query was called

acct_vars == <<cash_balance, holdings, initial_deposit, transactions>>
thread_vars == <<pc, op, local, result, pre>>
reader_vars == <<rpc, rloc, rstart>>
client_vars == <<ccall, cres, cacct>>
vars == <<constructed, ctor_arg, cash_balance, holdings, initial_deposit, transactions, lock, now, pc, op, local, result, pre, rpc, rloc, rstart, ccall, cres, cacct>>

\* ----------------------------------------------------------------- records
EmptyDict == [s \in {} |-> 0]

\* dict.get(key, default)
DictGet(d, key, default) == IF key \in DOMAIN d THEN d[key] ELSE default

\* d[key] = value
DictSet(d, key, value) ==
    [s \in (DOMAIN d) \cup {key} |-> IF s = key THEN value ELSE d[s]]

\* d.pop(key, None)
DictPop(d, key) == [s \in (DOMAIN d) \ {key} |-> d[s]]

\* The frozen dataclass Transaction.
Transaction(tx_id, timestamp, type, symbol, quantity, price, cash_delta, holdings_delta, note) ==
    [tx_id |-> tx_id, timestamp |-> timestamp, type |-> type,
     symbol |-> symbol, quantity |-> quantity, price |-> price,
     cash_delta |-> cash_delta, holdings_delta |-> holdings_delta,
     note |-> note]

\* _current_time
current_time == now

\* Mutant of record_transaction: the new record is put in front of the log.
record_transaction_front(txs, type, cash_delta, holdings_delta, symbol, quantity, price, note) ==
    <<Transaction(Len(txs) + 1, current_time, type, symbol, quantity, price, cash_delta, holdings_delta, note)>> \o txs

\* Mutant of record_transaction: list.insert(-1, tx), which puts the new
\* record before the last one.
record_transaction_insert(txs, type, cash_delta, holdings_delta, symbol, quantity, price, note) ==
    LET tx == Transaction(Len(txs) + 1, current_time, type, symbol, quantity, price, cash_delta, holdings_delta, note) IN
    IF txs = <<>> THEN <<tx>>
    ELSE SubSeq(txs, 1, Len(txs) - 1) \o <<tx, txs[Len(txs)]>>

\* _record_transaction: the log with the new record appended.  tx_id stands
\* for uuid4(): a value no earlier record carries.
record_transaction(txs, type, cash_delta, holdings_delta, symbol, quantity, price, note) ==
    Append(txs, Transaction(Len(txs) + 1, current_time, type, symbol,
                            quantity, price, cash_delta, holdings_delta, note))

\* _count_deposits
count_deposits(txs) ==
    Cardinality({i \in 1..Len(txs) : txs[i].type = "deposit"})

\* _validate_positive_amount: TRUE iff it returns without raising.
validate_positive_amount(amount) == ~(amount <= 0)

\* The account's fields as one value.
Acct ==
    [cash_balance |-> cash_balance, holdings |-> holdings,
     initial_deposit |-> initial_deposit, transactions |-> transactions]

NoAcct ==
    [cash_balance |-> 0, holdings |-> EmptyDict, initial_deposit |-> 0,
     transactions |-> <<>>]

NoOp ==
    [name |-> "none", amount |-> 0, symbol |-> "", quantity |-> 0,
     price |-> None, note |-> None]

NoLocal ==
    [exec_price |-> 0, cost |-> 0, proceeds |-> 0, current_shares |-> 0,
     tx |-> None]

NoResult == [status |-> "none", tx |-> None]

Returned(tx) == [status |-> "ok", tx |-> Some(tx)]

Raised(error) == [status |-> error, tx |-> None]

NoStatement ==
    [price_provider |-> None, pv |-> 0, total |-> 0, pl |-> 0,
     cash_balance |-> 0, holdings |-> EmptyDict,
     number_of_transactions |-> 0, status |-> "none"]

NoQuery ==
    [name |-> "none", price_provider |-> None, start |-> None, end |-> None,
     type_filter |-> None, symbol_filter |-> None]

\* What a query returned: a number, a dict (with the object it is), a list
\* or a statement, by the query; mutated once the client wrote to the dict.
NoAnswer ==
    [status |-> "none", number |-> 0, mapping |-> EmptyDict, object |-> "none",
     list |-> <<>>, statement |-> NoStatement, mutated |-> FALSE]

\* ------------------------------------------------------------ construction
\* Mutant of Account_init: the baseline is left at 0.
Account_init_no_baseline(d) ==
    IF d < 0
    THEN [raised |-> TRUE, cash_balance |-> 0, holdings |-> EmptyDict,
          initial_deposit |-> 0, transactions |-> <<>>]
    ELSE IF d > 0
    THEN [raised |-> FALSE, cash_balance |-> 0 + d, holdings |-> EmptyDict,
          initial_deposit |-> 0,
          transactions |->
              record_transaction(<<>>, "deposit", d, EmptyDict, None, None,
                                 None, Some("Initial deposit"))]
    ELSE [raised |-> FALSE, cash_balance |-> 0, holdings |-> EmptyDict,
          initial_deposit |-> 0, transactions |-> <<>>]

\* Account.__init__(initial_deposit = d): the fields after construction, or
\* the exception raised.
Account_init(d) ==
    IF d < 0
    THEN [raised |-> TRUE, cash_balance |-> 0, holdings |-> EmptyDict,
          initial_deposit |-> 0, transactions |-> <<>>]
    ELSE IF d > 0
    THEN [raised |-> FALSE, cash_balance |-> 0 + d, holdings |-> EmptyDict,
          initial_deposit |-> d,
          transactions |->
              record_transaction(<<>>, "deposit", d, EmptyDict, None, None,
                                 None, Some("Initial deposit"))]
    ELSE [raised |-> FALSE, cash_balance |-> 0, holdings |-> EmptyDict,
          initial_deposit |-> 0, transactions |-> <<>>]


Init ==
    /\ now = 0
    /\ \E d \in InitialDeposits :
          /\ ctor_arg = d
          /\ constructed = ~Account_init(d).raised
          /\ cash_balance = Account_init(d).cash_balance
          /\ holdings = Account_init(d).holdings
          /\ initial_deposit = Account_init(d).initial_deposit
          /\ transactions = Account_init(d).transactions
    /\ lock = None
    /\ pc = [t \in Threads |-> "idle"]
    /\ op = [t \in Threads |-> NoOp]
    /\ local = [t \in Threads |-> NoLocal]
    /\ result = [t \in Threads |-> NoResult]
    /\ pre = [t \in Threads |-> NoAcct]
    /\ rpc = "idle"
    /\ rloc = NoStatement
    /\ rstart = 0
    /\ ccall = NoQuery
    /\ cres = NoAnswer
    /\ cacct = NoAcct

\* ------------------------------------------------------------ thread steps
Goto(t, label) == pc' = [pc EXCEPT ![t] = label]

\* The calls that have been invoked and have not yet left their method.
InFlight == {u \in Threads : pc[u] \notin {"idle", "done"}}

\* Thread t is free to invoke a method of the constructed account.
CanInvoke(t) ==
    /\ constructed
    /\ pc[t] \in {"idle", "done"}
    /\ Len(transactions) + Cardinality(InFlight) < MaxTx

\* The method is entered with its arguments and runs up to its with-block.
Enter(t, call) ==
    /\ op' = [op EXCEPT ![t] = call]
    /\ result' = [result EXCEPT ![t] = NoResult]
    /\ Goto(t, "acquire")
    /\ UNCHANGED <<local, pre>>
    /\ UNCHANGED <<constructed, ctor_arg, acct_vars, lock, now, reader_vars, client_vars>>

\* The method is entered and raises before its with-block.
Reject(t, call, error) ==
    /\ op' = [op EXCEPT ![t] = call]
    /\ result' = [result EXCEPT ![t] = Raised(error)]
    /\ Goto(t, "done")
    /\ UNCHANGED <<local, pre>>
    /\ UNCHANGED <<constructed, ctor_arg, acct_vars, lock, now, reader_vars, client_vars>>

\* Mutant of RaiseInside: the exception leaves the method with the lock
\* still held (acquire and release by hand, with no try/finally).
RaiseInside_keeps_lock(t, error) ==
    /\ result' = [result EXCEPT ![t] = Raised(error)]
    /\ Goto(t, "done")
    /\ UNCHANGED <<op, local, pre>>
    /\ UNCHANGED <<constructed, ctor_arg, acct_vars, lock, now, reader_vars, client_vars>>

\* An exception raised inside the with-block: the block's exit follows.
RaiseInside(t, error) ==
    /\ result' = [result EXCEPT ![t] = Raised(error)]
    /\ Goto(t, "release")
    /\ UNCHANGED <<op, local, pre>>
    /\ UNCHANGED <<constructed, ctor_arg, acct_vars, lock, now, reader_vars, client_vars>>

\* A step inside the with-block that changes only the thread's locals.
LocalStep(t, label, locals) ==
    /\ local' = [local EXCEPT ![t] = locals]
    /\ Goto(t, label)
    /\ UNCHANGED <<op, result, pre>>
    /\ UNCHANGED <<constructed, ctor_arg, acct_vars, lock, now, reader_vars, client_vars>>

\* Mutant of LockFree: acquire never waits.
LockFree_always == TRUE

\* threading.Lock: acquire blocks while a thread holds the lock.
LockFree == lock = None

\* Mutant of Acquire: the with-block is entered without taking the lock.
Acquire_unlocked(t) ==
    /\ pc[t] = "acquire"
    /\ pre' = [pre EXCEPT ![t] = Acct]
    /\ Goto(t, op[t].name)
    /\ UNCHANGED <<op, local, result>>
    /\ UNCHANGED <<constructed, ctor_arg, acct_vars, lock, now, reader_vars, client_vars>>

\* `with self._lock:` entered.
Acquire(t) ==
    /\ pc[t] = "acquire"
    /\ LockFree
    /\ lock' = Some(t)
    /\ pre' = [pre EXCEPT ![t] = Acct]
    /\ Goto(t, op[t].name)
    /\ UNCHANGED <<op, local, result>>
    /\ UNCHANGED <<constructed, ctor_arg, acct_vars, now, reader_vars, client_vars>>

\* The with-block is left, by `return tx` or by an exception: the lock is
\* released and the call is over.
Release(t) ==
    /\ pc[t] = "release"
    /\ lock' = None
    /\ local' = [local EXCEPT ![t] = NoLocal]
    /\ pre' = [pre EXCEPT ![t] = NoAcct]
    /\ Goto(t, "done")
    /\ UNCHANGED <<op, result>>
    /\ UNCHANGED <<constructed, ctor_arg, acct_vars, now, reader_vars, client_vars>>

\* The clock advances.
Tick ==
    /\ \E instant \in Instants : instant > now /\ now' = instant
    /\ UNCHANGED <<constructed, ctor_arg, acct_vars, lock, thread_vars, reader_vars, client_vars>>

\* ----------------------------------------------------------------- deposit
DepositCall(amount, note) ==
    [name |-> "deposit", amount |-> amount, symbol |-> "", quantity |-> 0,
     price |-> None, note |-> note]

\* lines 83-84
deposit(t, amount, note) ==
    /\ CanInvoke(t)
    /\ IF validate_positive_amount(amount)
       THEN Enter(t, DepositCall(amount, note))
       ELSE Reject(t, DepositCall(amount, note), "InvalidTransactionError")

\* Mutant of deposit_add: the amount is assigned, not added.
deposit_add_assign(t) ==
    /\ pc[t] = "deposit"
    /\ cash_balance' = op[t].amount
    /\ Goto(t, "deposit_record")
    /\ UNCHANGED <<op, local, result, pre>>
    /\ UNCHANGED <<constructed, ctor_arg, holdings, initial_deposit, transactions, lock, now, reader_vars, client_vars>>

\* line 86
deposit_add(t) ==
    /\ pc[t] = "deposit"
    /\ cash_balance' = cash_balance + op[t].amount
    /\ Goto(t, "deposit_record")
    /\ UNCHANGED <<op, local, result, pre>>
    /\ UNCHANGED <<constructed, ctor_arg, holdings, initial_deposit, transactions, lock, now, reader_vars, client_vars>>

\* lines 87-95
deposit_record(t) ==
    /\ pc[t] = "deposit_record"
    /\ transactions' = record_transaction(transactions, "deposit", op[t].amount, EmptyDict, None, None, None, op[t].note)
    /\ local' = [local EXCEPT ![t].tx = Some(transactions'[Len(transactions')])]
    /\ Goto(t, "deposit_baseline")
    /\ UNCHANGED <<op, result, pre>>
    /\ UNCHANGED <<constructed, ctor_arg, cash_balance, holdings, initial_deposit, lock, now, reader_vars, client_vars>>

\* Mutant of baseline_unset: every deposit resets the baseline.
baseline_unset_always(baseline, deposits) == TRUE

\* The condition of line 97.
baseline_unset(baseline, deposits) == baseline = 0 /\ deposits = 1

\* lines 97-99
deposit_baseline(t) ==
    /\ pc[t] = "deposit_baseline"
    /\ initial_deposit' =
          IF baseline_unset(initial_deposit, count_deposits(transactions))
          THEN op[t].amount
          ELSE initial_deposit
    /\ result' = [result EXCEPT ![t] = Returned(local[t].tx[1])]
    /\ Goto(t, "release")
    /\ UNCHANGED <<op, local, pre>>
    /\ UNCHANGED <<constructed, ctor_arg, cash_balance, holdings, transactions, lock, now, reader_vars, client_vars>>

\* ---------------------------------------------------------------- withdraw
WithdrawCall(amount, note) ==
    [name |-> "withdraw", amount |-> amount, symbol |-> "", quantity |-> 0,
     price |-> None, note |-> note]

\* lines 101-102
withdraw(t, amount, note) ==
    /\ CanInvoke(t)
    /\ IF validate_positive_amount(amount)
       THEN Enter(t, WithdrawCall(amount, note))
       ELSE Reject(t, WithdrawCall(amount, note), "InvalidTransactionError")

\* Mutant of withdraw_overdraws: the funds check is missing.
withdraw_overdraws_unchecked(balance, amount) == FALSE

\* Mutant of withdraw_overdraws: a withdrawal of the whole balance is refused.
withdraw_overdraws_strict(balance, amount) == balance - amount <= 0

\* The condition of line 104.
withdraw_overdraws(balance, amount) == balance - amount < 0

\* lines 104-105
withdraw_check(t) ==
    /\ pc[t] = "withdraw"
    /\ IF withdraw_overdraws(cash_balance, op[t].amount)
       THEN RaiseInside(t, "InsufficientFundsError")
       ELSE LocalStep(t, "withdraw_sub", local[t])

\* line 106
withdraw_sub(t) ==
    /\ pc[t] = "withdraw_sub"
    /\ cash_balance' = cash_balance - op[t].amount
    /\ Goto(t, "withdraw_record")
    /\ UNCHANGED <<op, local, result, pre>>
    /\ UNCHANGED <<constructed, ctor_arg, holdings, initial_deposit, transactions, lock, now, reader_vars, client_vars>>

\* Mutant of withdraw_record: the record carries the amount, not its negative.
withdraw_record_unsigned(t) ==
    /\ pc[t] = "withdraw_record"
    /\ transactions' = record_transaction(transactions, "withdraw", op[t].amount, EmptyDict, None, None, None, op[t].note)
    /\ result' = [result EXCEPT ![t] = Returned(transactions'[Len(transactions')])]
    /\ Goto(t, "release")
    /\ UNCHANGED <<op, local, pre>>
    /\ UNCHANGED <<constructed, ctor_arg, cash_balance, holdings, initial_deposit, lock, now, reader_vars, client_vars>>

\* lines 107-116
withdraw_record(t) ==
    /\ pc[t] = "withdraw_record"
    /\ transactions' = record_transaction(transactions, "withdraw", -op[t].amount, EmptyDict, None, None, None, op[t].note)
    /\ result' = [result EXCEPT ![t] = Returned(transactions'[Len(transactions')])]
    /\ Goto(t, "release")
    /\ UNCHANGED <<op, local, pre>>
    /\ UNCHANGED <<constructed, ctor_arg, cash_balance, holdings, initial_deposit, lock, now, reader_vars, client_vars>>

\* --------------------------------------------------------------------- buy
BuyCall(symbol, quantity, price, note) ==
    [name |-> "buy", amount |-> 0, symbol |-> symbol, quantity |-> quantity,
     price |-> price, note |-> note]

\* Mutant of invalid_quantity: a quantity of 0 is let through.
invalid_quantity_negative(quantity) == quantity < 0

\* The condition of lines 119 and 143.
invalid_quantity(quantity) == quantity <= 0

\* lines 118-120
buy(t, symbol, quantity, price, note) ==
    /\ CanInvoke(t)
    /\ IF invalid_quantity(quantity)
       THEN Reject(t, BuyCall(symbol, quantity, price, note), "InvalidTransactionError")
       ELSE Enter(t, BuyCall(symbol, quantity, price, note))

\* `price if price is not None else get_share_price(symbol)`: Some(price),
\* or None when get_share_price raises UnknownSymbolError.
resolve_price(price, symbol) ==
    IF price # None THEN price ELSE get_share_price(symbol)

\* The condition of lines 123 and 150, on a price that was resolved.
invalid_price(exec_price) == exec_price < 0

\* lines 122-124
buy_price(t) ==
    /\ pc[t] = "buy"
    /\ LET exec_price == resolve_price(op[t].price, op[t].symbol) IN
       IF exec_price = None
       THEN RaiseInside(t, "UnknownSymbolError")
       ELSE IF invalid_price(exec_price[1])
       THEN RaiseInside(t, "InvalidTransactionError")
       ELSE LocalStep(t, "buy_funds", [local[t] EXCEPT !.exec_price = exec_price[1]])

\* The condition of line 126.
buy_overdraws(balance, cost) == balance - cost < 0

\* Mutant of buy_funds: the cost is debited before the funds check raises.
buy_funds_debit_first(t) ==
    /\ pc[t] = "buy_funds"
    /\ LET cost == local[t].exec_price * op[t].quantity IN
       IF buy_overdraws(cash_balance, cost)
       THEN /\ cash_balance' = cash_balance - cost
            /\ result' = [result EXCEPT ![t] = Raised("InsufficientFundsError")]
            /\ Goto(t, "release")
            /\ UNCHANGED <<op, local, pre>>
            /\ UNCHANGED <<constructed, ctor_arg, holdings, initial_deposit, transactions, lock, now, reader_vars, client_vars>>
       ELSE LocalStep(t, "buy_sub", [local[t] EXCEPT !.cost = cost])

\* lines 125-127
buy_funds(t) ==
    /\ pc[t] = "buy_funds"
    /\ LET cost == local[t].exec_price * op[t].quantity IN
       IF buy_overdraws(cash_balance, cost)
       THEN RaiseInside(t, "InsufficientFundsError")
       ELSE LocalStep(t, "buy_sub", [local[t] EXCEPT !.cost = cost])

\* line 128
buy_sub(t) ==
    /\ pc[t] = "buy_sub"
    /\ cash_balance' = cash_balance - local[t].cost
    /\ Goto(t, "buy_hold")
    /\ UNCHANGED <<op, local, result, pre>>
    /\ UNCHANGED <<constructed, ctor_arg, holdings, initial_deposit, transactions, lock, now, reader_vars, client_vars>>

\* Mutant of buy_holdings: the quantity bought replaces the holding.
buy_holdings_assign(h, symbol, quantity) == DictSet(h, symbol, quantity)

\* The dict after line 129.
buy_holdings(h, symbol, quantity) == DictSet(h, symbol, DictGet(h, symbol, 0) + quantity)

\* line 129
buy_hold(t) ==
    /\ pc[t] = "buy_hold"
    /\ holdings' = buy_holdings(holdings, op[t].symbol, op[t].quantity)
    /\ Goto(t, "buy_record")
    /\ UNCHANGED <<op, local, result, pre>>
    /\ UNCHANGED <<constructed, ctor_arg, cash_balance, initial_deposit, transactions, lock, now, reader_vars, client_vars>>

\* lines 130-140
buy_record(t) ==
    /\ pc[t] = "buy_record"
    /\ LET holdings_delta == [s \in {op[t].symbol} |-> op[t].quantity] IN
       transactions' = record_transaction(transactions, "buy", -local[t].cost, holdings_delta, Some(op[t].symbol), Some(op[t].quantity), Some(local[t].exec_price), op[t].note)
    /\ result' = [result EXCEPT ![t] = Returned(transactions'[Len(transactions')])]
    /\ Goto(t, "release")
    /\ UNCHANGED <<op, local, pre>>
    /\ UNCHANGED <<constructed, ctor_arg, cash_balance, holdings, initial_deposit, lock, now, reader_vars, client_vars>>

\* -------------------------------------------------------------------- sell
SellCall(symbol, quantity, price, note) ==
    [name |-> "sell", amount |-> 0, symbol |-> symbol, quantity |-> quantity,
     price |-> price, note |-> note]

\* lines 142-144
sell(t, symbol, quantity, price, note) ==
    /\ CanInvoke(t)
    /\ IF invalid_quantity(quantity)
       THEN Reject(t, SellCall(symbol, quantity, price, note), "InvalidTransactionError")
       ELSE Enter(t, SellCall(symbol, quantity, price, note))

\* The condition of line 147.
sell_oversells(current_shares, quantity) == current_shares - quantity < 0

\* Mutant of sell_shares: the price is resolved before the shares are checked.
sell_shares_price_first(t) ==
    /\ pc[t] = "sell"
    /\ LET current_shares == DictGet(holdings, op[t].symbol, 0) IN
       IF resolve_price(op[t].price, op[t].symbol) = None
       THEN RaiseInside(t, "UnknownSymbolError")
       ELSE IF sell_oversells(current_shares, op[t].quantity)
       THEN RaiseInside(t, "InsufficientSharesError")
       ELSE LocalStep(t, "sell_price", [local[t] EXCEPT !.current_shares = current_shares])

\* lines 146-148
sell_shares(t) ==
    /\ pc[t] = "sell"
    /\ LET current_shares == DictGet(holdings, op[t].symbol, 0) IN
       IF sell_oversells(current_shares, op[t].quantity)
       THEN RaiseInside(t, "InsufficientSharesError")
       ELSE LocalStep(t, "sell_price", [local[t] EXCEPT !.current_shares = current_shares])

\* lines 149-151
sell_price(t) ==
    /\ pc[t] = "sell_price"
    /\ LET exec_price == resolve_price(op[t].price, op[t].symbol) IN
       IF exec_price = None
       THEN RaiseInside(t, "UnknownSymbolError")
       ELSE IF invalid_price(exec_price[1])
       THEN RaiseInside(t, "InvalidTransactionError")
       ELSE LocalStep(t, "sell_add", [local[t] EXCEPT !.exec_price = exec_price[1]])

\* Mutant of sell_add: the price of one share is credited.
sell_add_price(t) ==
    /\ pc[t] = "sell_add"
    /\ LET proceeds == local[t].exec_price * op[t].quantity IN
       /\ local' = [local EXCEPT ![t].proceeds = proceeds]
       /\ cash_balance' = cash_balance + local[t].exec_price
    /\ Goto(t, "sell_hold")
    /\ UNCHANGED <<op, result, pre>>
    /\ UNCHANGED <<constructed, ctor_arg, holdings, initial_deposit, transactions, lock, now, reader_vars, client_vars>>

\* lines 152-153
sell_add(t) ==
    /\ pc[t] = "sell_add"
    /\ LET proceeds == local[t].exec_price * op[t].quantity IN
       /\ local' = [local EXCEPT ![t].proceeds = proceeds]
       /\ cash_balance' = cash_balance + proceeds
    /\ Goto(t, "sell_hold")
    /\ UNCHANGED <<op, result, pre>>
    /\ UNCHANGED <<constructed, ctor_arg, holdings, initial_deposit, transactions, lock, now, reader_vars, client_vars>>

\* Mutant of sell_holdings: the entry is kept when it reaches zero.
sell_holdings_keep(h, symbol, new_shares) == DictSet(h, symbol, new_shares)

\* The dict after lines 155-158.
sell_holdings(h, symbol, new_shares) ==
    IF new_shares = 0 THEN DictPop(h, symbol) ELSE DictSet(h, symbol, new_shares)

\* lines 154-158
sell_hold(t) ==
    /\ pc[t] = "sell_hold"
    /\ LET new_shares == local[t].current_shares - op[t].quantity IN
       holdings' = sell_holdings(holdings, op[t].symbol, new_shares)
    /\ Goto(t, "sell_record")
    /\ UNCHANGED <<op, local, result, pre>>
    /\ UNCHANGED <<constructed, ctor_arg, cash_balance, initial_deposit, transactions, lock, now, reader_vars, client_vars>>

\* lines 159-169
sell_record(t) ==
    /\ pc[t] = "sell_record"
    /\ LET holdings_delta == [s \in {op[t].symbol} |-> -op[t].quantity] IN
       transactions' = record_transaction(transactions, "sell", local[t].proceeds, holdings_delta, Some(op[t].symbol), Some(op[t].quantity), Some(local[t].exec_price), op[t].note)
    /\ result' = [result EXCEPT ![t] = Returned(transactions'[Len(transactions')])]
    /\ Goto(t, "release")
    /\ UNCHANGED <<op, local, pre>>
    /\ UNCHANGED <<constructed, ctor_arg, cash_balance, holdings, initial_deposit, lock, now, reader_vars, client_vars>>

\* --------------------------------------------------------------- valuation
\* The injected provider of test_accounts.py: Some(price), or None where it
\* raises UnknownSymbolError.
fake_provider(symbol) ==
    CASE symbol = "AAPL" -> Some(200)
      [] symbol = "TSLA" -> Some(600)
      [] OTHER -> None

\* Mutant of provider_price: the supplied provider is ignored.
provider_price_default(price_provider, symbol) == get_share_price(symbol)

\* line 179 and the call of line 182
provider_price(price_provider, symbol) ==
    IF price_provider # None THEN fake_provider(symbol) ELSE get_share_price(symbol)

RECURSIVE SumValue(_, _, _)
\* The loop of get_portfolio_value over the entries of h still to visit.
SumValue(h, price_provider, symbols) ==
    IF symbols = {} THEN 0
    ELSE LET s == CHOOSE x \in symbols : TRUE IN
         provider_price(price_provider, s)[1] * h[s] + SumValue(h, price_provider, symbols \ {s})

\* get_portfolio_value: Some(total), or None when the provider raises
\* UnknownSymbolError for a held symbol.
get_portfolio_value(h, price_provider) ==
    IF \E s \in DOMAIN h : provider_price(price_provider, s) = None
    THEN None
    ELSE Some(SumValue(h, price_provider, DOMAIN h))

\* get_holdings: dict(self.holdings), a new dict with the same entries.
get_holdings(h) == [s \in DOMAIN h |-> h[s]]

\* -------------------------------------------------------------- statement
ReaderStep(label, locals) ==
    /\ rloc' = locals
    /\ rpc' = label
    /\ UNCHANGED rstart
    /\ UNCHANGED <<constructed, ctor_arg, acct_vars, lock, now, thread_vars, client_vars>>

\* The reader calls statement(price_provider).
statement(price_provider) ==
    /\ constructed
    /\ rpc \in {"idle", "done"}
    /\ rloc' = [NoStatement EXCEPT !.price_provider = price_provider]
    /\ rstart' = Len(transactions)
    /\ rpc' = "statement_pv"
    /\ UNCHANGED <<constructed, ctor_arg, acct_vars, lock, now, thread_vars, client_vars>>

\* line 222
statement_pv ==
    /\ rpc = "statement_pv"
    /\ LET pv == get_portfolio_value(holdings, rloc.price_provider) IN
       IF pv = None
       THEN ReaderStep("done", [rloc EXCEPT !.status = "UnknownSymbolError"])
       ELSE ReaderStep("statement_total", [rloc EXCEPT !.pv = pv[1]])

\* line 223
statement_total ==
    /\ rpc = "statement_total"
    /\ ReaderStep("statement_pl", [rloc EXCEPT !.total = cash_balance + rloc.pv])

\* line 224
statement_pl ==
    /\ rpc = "statement_pl"
    /\ ReaderStep("statement_cash", [rloc EXCEPT !.pl = rloc.total - initial_deposit])

\* line 228
statement_cash ==
    /\ rpc = "statement_cash"
    /\ ReaderStep("statement_holdings", [rloc EXCEPT !.cash_balance = cash_balance])

\* line 229
statement_holdings ==
    /\ rpc = "statement_holdings"
    /\ ReaderStep("statement_count", [rloc EXCEPT !.holdings = get_holdings(holdings)])

\* lines 233-234
statement_count ==
    /\ rpc = "statement_count"
    /\ ReaderStep("done", [rloc EXCEPT !.number_of_transactions = Len(transactions), !.status = "ok"])

\* ----------------------------------------------------------------- queries
\* The queries below are called by the thread that also calls the mutating
\* operations, between two of its calls: each runs from its call to its
\* return with no other step in between.

\* Price providers, instants and filters put to the queries.
ListQueries ==
    {<<None, None, None, None>>, <<Some(1), Some(0), None, None>>,
     <<Some(1), Some(1), None, None>>,
     <<Some(1), None, None, None>>, <<None, Some(0), None, None>>,
     <<None, None, Some("deposit"), None>>, <<None, None, None, Some("AAPL")>>,
     <<Some(0), Some(1), Some("sell"), Some("AAPL")>>}
\* What the caller of get_holdings does to the dict it was given:
\* d[symbol] = quantity or d.pop(symbol, None).
Mutations == {<<"set", "AAPL", 9>>, <<"set", "ZZZ", 1>>, <<"pop", "AAPL", 0>>}

\* get_cash_balance: float() of a float is that float.
get_cash_balance(cash) == cash

\* get_total_balance: Some(total), or None when get_portfolio_value raises.
get_total_balance(a, price_provider) ==
    LET pv == get_portfolio_value(a.holdings, price_provider) IN
    IF pv = None THEN None ELSE Some(a.cash_balance + pv[1])

\* get_profit_loss: Some(profit or loss), or None when get_total_balance raises.
get_profit_loss(a, price_provider) ==
    LET total == get_total_balance(a, price_provider) IN
    IF total = None THEN None ELSE Some(total[1] - a.initial_deposit)

\* Mutant of get_holdings_object: the account's own dict is handed out.
get_holdings_object_own == "self.holdings"

\* The object get_holdings returns: dict(self.holdings) is a new dict, not
\* the object self.holdings.
get_holdings_object == "dict(self.holdings)"

\* Mutant of list_skips: the end of the range is exclusive.
list_skips_exclusive(tx, start, end, type_filter, symbol_filter) ==
    \/ start # None /\ tx.timestamp < start[1]
    \/ end # None /\ tx.timestamp >= end[1]
    \/ type_filter # None /\ tx.type # type_filter[1]
    \/ symbol_filter # None /\ tx.symbol # symbol_filter

\* The four `continue` conditions of the loop of list_transactions.
list_skips(tx, start, end, type_filter, symbol_filter) ==
    \/ start # None /\ tx.timestamp < start[1]
    \/ end # None /\ tx.timestamp > end[1]
    \/ type_filter # None /\ tx.type # type_filter[1]
    \/ symbol_filter # None /\ tx.symbol # symbol_filter

RECURSIVE list_loop(_, _, _, _, _, _)
\* The loop of list_transactions over the first k records: the result list.
list_loop(txs, k, start, end, type_filter, symbol_filter) ==
    IF k = 0 THEN <<>>
    ELSE LET result_so_far == list_loop(txs, k - 1, start, end, type_filter, symbol_filter) IN
         IF list_skips(txs[k], start, end, type_filter, symbol_filter)
         THEN result_so_far
         ELSE Append(result_so_far, txs[k])

\* list_transactions: Some(list), or None when it raises InvalidTransactionError.
list_transactions(txs, start, end, type_filter, symbol_filter) ==
    IF start # None /\ end # None /\ start[1] > end[1]
    THEN None
    ELSE Some(list_loop(txs, Len(txs), start, end, type_filter, symbol_filter))

\* Mutant of StatementOf: the profit or loss leaves the portfolio out.
StatementOf_cash_only(a, price_provider) ==
    LET pv == get_portfolio_value(a.holdings, price_provider)[1] IN
    [price_provider |-> price_provider, pv |-> pv, total |-> a.cash_balance + pv,
     pl |-> a.cash_balance - a.initial_deposit,
     cash_balance |-> a.cash_balance, holdings |-> a.holdings,
     number_of_transactions |-> Len(a.transactions), status |-> "ok"]

\* What statement(price_provider) returns on the account a.
StatementOf(a, price_provider) ==
    LET pv == get_portfolio_value(a.holdings, price_provider)[1] IN
    [price_provider |-> price_provider, pv |-> pv, total |-> a.cash_balance + pv,
     pl |-> a.cash_balance + pv - a.initial_deposit,
     cash_balance |-> a.cash_balance, holdings |-> a.holdings,
     number_of_transactions |-> Len(a.transactions), status |-> "ok"]

\* No mutating call is in progress.
Quiescent == \A t \in Threads : pc[t] \in {"idle", "done"}

\* The client calls the query and holds its answer.
Answer(query, answer) ==
    /\ constructed
    /\ ccall' = query
    /\ cres' = answer
    /\ cacct' = Acct
    /\ UNCHANGED <<constructed, ctor_arg, acct_vars, lock, now, thread_vars, reader_vars>>

\* A number returned, or the exception get_portfolio_value propagates.
NumberAnswer(value) ==
    IF value = None
    THEN [NoAnswer EXCEPT !.status = "UnknownSymbolError"]
    ELSE [NoAnswer EXCEPT !.status = "ok", !.number = value[1]]

call_get_cash_balance ==
    /\ Quiescent
    /\ Answer([NoQuery EXCEPT !.name = "get_cash_balance"],
              NumberAnswer(Some(get_cash_balance(cash_balance))))

call_get_holdings ==
    /\ Quiescent
    /\ Answer([NoQuery EXCEPT !.name = "get_holdings"],
              [NoAnswer EXCEPT !.status = "ok", !.mapping = get_holdings(holdings),
                               !.object = get_holdings_object])

call_get_portfolio_value(price_provider) ==
    /\ Quiescent
    /\ Answer([NoQuery EXCEPT !.name = "get_portfolio_value", !.price_provider = price_provider],
              NumberAnswer(get_portfolio_value(holdings, price_provider)))

call_get_total_balance(price_provider) ==
    /\ Quiescent
    /\ Answer([NoQuery EXCEPT !.name = "get_total_balance", !.price_provider = price_provider],
              NumberAnswer(get_total_balance(Acct, price_provider)))

call_get_profit_loss(price_provider) ==
    /\ Quiescent
    /\ Answer([NoQuery EXCEPT !.name = "get_profit_loss", !.price_provider = price_provider],
              NumberAnswer(get_profit_loss(Acct, price_provider)))

call_list_transactions(start, end, type_filter, symbol_filter) ==
    /\ Quiescent
    /\ LET listed == list_transactions(transactions, start, end, type_filter, symbol_filter) IN
       Answer([NoQuery EXCEPT !.name = "list_transactions", !.start = start, !.end = end,
                              !.type_filter = type_filter, !.symbol_filter = symbol_filter],
              IF listed = None
              THEN [NoAnswer EXCEPT !.status = "InvalidTransactionError"]
              ELSE [NoAnswer EXCEPT !.status = "ok", !.list = listed[1]])

\* statement() called and run to its return (or to the exception line 222
\* propagates) by the client.
call_statement(price_provider) ==
    /\ Quiescent
    /\ Answer([NoQuery EXCEPT !.name = "statement", !.price_provider = price_provider],
              IF get_portfolio_value(holdings, price_provider) = None
              THEN [NoAnswer EXCEPT !.status = "UnknownSymbolError"]
              ELSE [NoAnswer EXCEPT !.status = "ok", !.statement = StatementOf(Acct, price_provider)])

\* d[symbol] = quantity or d.pop(symbol, None) on the dict d.
Mutated(d, mutation) ==
    IF mutation[1] = "set" THEN DictSet(d, mutation[2], mutation[3]) ELSE DictPop(d, mutation[2])

\* The client writes to the dict get_holdings gave it: the write lands in the
\* object that dict is.
mutate_returned(mutation) ==
    /\ ccall.name = "get_holdings" /\ cres.status = "ok" /\ ~cres.mutated
    /\ Quiescent
    /\ cres' = [cres EXCEPT !.mapping = Mutated(cres.mapping, mutation), !.mutated = TRUE]
    /\ holdings' = IF cres.object = "self.holdings" THEN Mutated(holdings, mutation) ELSE holdings
    /\ UNCHANGED <<ccall, cacct>>
    /\ UNCHANGED <<constructed, ctor_arg, cash_balance, initial_deposit, transactions, lock, now, thread_vars, reader_vars>>

\* ----------------------------------------------------------- specification
\* One step of caller thread t.
Caller(t) ==
    \/ \E amount \in Amounts, note \in Notes : deposit(t, amount, note)
    \/ \E amount \in Amounts, note \in Notes : withdraw(t, amount, note)
    \/ \E trade \in Trades, note \in Notes : buy(t, trade[1], trade[2], trade[3], note)
    \/ \E trade \in Trades, note \in Notes : sell(t, trade[1], trade[2], trade[3], note)
    \/ Acquire(t)
    \/ deposit_add(t)
    \/ deposit_record(t)
    \/ deposit_baseline(t)
    \/ withdraw_check(t)
    \/ withdraw_sub(t)
    \/ withdraw_record(t)
    \/ buy_price(t)
    \/ buy_funds(t)
    \/ buy_sub(t)
    \/ buy_hold(t)
    \/ buy_record(t)
    \/ sell_shares(t)
    \/ sell_price(t)
    \/ sell_add(t)
    \/ sell_hold(t)
    \/ sell_record(t)
    \/ Release(t)

\* One step of the reader, which calls statement() again and again.
Reader ==
    \/ \E price_provider \in Providers : statement(price_provider)
    \/ statement_pv
    \/ statement_total
    \/ statement_pl
    \/ statement_cash
    \/ statement_holdings
    \/ statement_count

\* The callers of the mutating operations, running concurrently.
Next ==
    \/ \E t \in Threads : Caller(t)
    \/ Tick

Spec == Init /\ [][Next]_vars

\* The reader running concurrently with the mutating operations.  The reader
\* takes no lock and writes nothing, and the callers' critical sections are
\* serialized by the lock, so one caller thread produces every sequence of
\* account states that any number of them can show the reader.
NextReader ==
    \/ Caller("t1")
    \/ Reader
    \/ Tick

SpecReader == Init /\ [][NextReader]_vars

\* A step of thread t inside a method it has invoked, its wait for the lock
\* apart.
Proceed(t) ==
    \/ deposit_add(t) \/ deposit_record(t) \/ deposit_baseline(t)
    \/ withdraw_check(t) \/ withdraw_sub(t) \/ withdraw_record(t)
    \/ buy_price(t) \/ buy_funds(t) \/ buy_sub(t) \/ buy_hold(t) \/ buy_record(t)
    \/ sell_shares(t) \/ sell_price(t) \/ sell_add(t) \/ sell_hold(t) \/ sell_record(t)
    \/ Release(t)

\* Fair scheduling: a thread that can take a step of its method is not left
\* out for ever, and a thread that waits for a lock that is free again and
\* again gets it.
Fairness == \A t \in Threads : WF_vars(Proceed(t)) /\ SF_vars(Acquire(t))

\* The concurrent callers under fair scheduling.
SpecFair == Spec /\ Fairness

\* One step of the client: a query, or a write to the dict it was given.
Client ==
    \/ call_get_cash_balance
    \/ call_get_holdings
    \/ \E price_provider \in Providers : call_get_portfolio_value(price_provider)
    \/ \E price_provider \in Providers : call_get_total_balance(price_provider)
    \/ \E price_provider \in Providers : call_get_profit_loss(price_provider)
    \/ \E query \in ListQueries : call_list_transactions(query[1], query[2], query[3], query[4])
    \/ \E price_provider \in Providers : call_statement(price_provider)
    \/ \E mutation \in Mutations : mutate_returned(mutation)

\* One thread that uses the account: mutating calls and, between them, queries.
NextClient ==
    \/ Caller("t1")
    \/ Client
    \/ Tick

SpecClient == Init /\ [][NextClient]_vars

\* ------------------------------------------------------------------ claims
\* Thread t is inside its with-block.
InCS(t) == pc[t] \notin {"idle", "done", "acquire"}

\* The outcome is an exception.
Failed(r) == r.status \notin {"none", "ok"}

Last(seq) == seq[Len(seq)]

\* C1: in every reachable state, also inside the operations and under every
\* interleaving of the callers, cash_balance >= 0.
C1_CashNeverNegative == cash_balance >= 0

\* A withdrawal has emptied the account and a buy was refused for lack of funds.
C1_Witness ==
    \E t, u \in Threads :
        /\ pc[t] = "done" /\ op[t].name = "withdraw" /\ result[t].status = "ok"
        /\ pc[u] = "release" /\ op[u].name = "buy"
        /\ result[u].status = "InsufficientFundsError"
        /\ cash_balance = 0

\* C2: in every reachable state every symbol in holdings maps to a quantity
\* > 0; a sell that brings a holding to zero removes the entry.
C2_HoldingsPositive == \A s \in DOMAIN holdings : holdings[s] > 0

\* A sell has sold the whole holding of its symbol, and the entry is gone.
C2_Witness ==
    \E t \in Threads :
        /\ pc[t] = "release" /\ op[t].name = "sell" /\ result[t].status = "ok"
        /\ op[t].symbol \in DOMAIN pre[t].holdings
        /\ pre[t].holdings[op[t].symbol] = op[t].quantity
        /\ op[t].symbol \notin DOMAIN holdings

\* C3: the log is append-only.  Every step leaves transactions alone or
\* appends one record at its end, and a call that reaches its return with a
\* record has appended exactly that one record to the log it found.
C3_AppendOnly ==
    [][/\ \/ transactions' = transactions
          \/ /\ Len(transactions') = Len(transactions) + 1
             /\ SubSeq(transactions', 1, Len(transactions)) = transactions
       /\ \A t \in Threads :
             (pc[t] # "release" /\ pc'[t] = "release" /\ result'[t].status = "ok")
                 => transactions' = Append(pre[t].transactions, result'[t].tx[1])
      ]_vars

\* A successful call has appended its record to a log that was not empty.
C3_Witness ==
    \E t \in Threads :
        /\ pc[t] = "release" /\ result[t].status = "ok"
        /\ Len(pre[t].transactions) >= 1
        /\ Len(transactions) = Len(pre[t].transactions) + 1

\* C4: a call that fails leaves the account as it was.  The step in which a
\* call raises, and the release that follows it, change none of
\* cash_balance, holdings, initial_deposit and transactions, and a call that
\* raises inside its with-block has the account as it found it.
C4_FailureLeavesState ==
    [][\A t \in Threads :
          (/\ Failed(result'[t])
           /\ <<pc[t], op[t], result[t]>> # <<pc'[t], op'[t], result'[t]>>)
              => /\ Acct' = Acct
                 /\ InCS(t) => Acct = pre[t]
      ]_vars

\* A call has raised inside its with-block on an account that holds cash,
\* shares and records.
C4_Witness ==
    \E t \in Threads :
        /\ pc[t] = "release" /\ Failed(result[t])
        /\ cash_balance > 0 /\ holdings # EmptyDict /\ Len(transactions) >= 2

\* C5: mutual exclusion.  While a thread is inside its with-block, a step of
\* another thread changes nothing of the account and leaves every other
\* thread outside its with-block; so no two threads are ever inside.
C5_MutualExclusion ==
    [][\A t \in Threads :
          (InCS(t) /\ pc'[t] = pc[t])
              => /\ Acct' = Acct
                 /\ \A u \in Threads \ {t} : ~InCS(u)'
      ]_vars

\* A thread is between its funds check and its write while another waits
\* for the lock.
C5_Witness ==
    \E t, u \in Threads :
        /\ pc[t] = "withdraw_sub" /\ pc[u] = "acquire" /\ lock = Some(t)

\* The records of txs that are deposits.
Deposits(txs) == {i \in 1..Len(txs) : txs[i].type = "deposit"}

\* The quantity of symbol s in the dict h, 0 when it has no entry.
Held(h, s) == IF s \in DOMAIN h THEN h[s] ELSE 0

\* The dict h with the quantity of symbol s changed by d, no entry at zero.
Traded(h, s, d) ==
    [x \in {y \in (DOMAIN h) \cup {s} : Held(h, y) + (IF y = s THEN d ELSE 0) # 0} |->
        Held(h, x) + (IF x = s THEN d ELSE 0)]

\* The account a with cash changed by cash_delta, holdings of s by d, and
\* the record tx appended.
Committed(a, cash_delta, s, d, baseline, tx) ==
    [cash_balance |-> a.cash_balance + cash_delta,
     holdings |-> IF d = 0 THEN a.holdings ELSE Traded(a.holdings, s, d),
     initial_deposit |-> baseline,
     transactions |-> Append(a.transactions, tx)]

\* The call executed alone on the account a, recording at instant ts: the
\* account it leaves and its outcome.
Serial(a, call, ts) ==
    LET id == Len(a.transactions) + 1
        p == resolve_price(call.price, call.symbol)
        fail(error) == [acct |-> a, status |-> error]
        done(acct) == [acct |-> acct, status |-> "ok"]
    IN  CASE call.name = "deposit" ->
               IF call.amount <= 0 THEN fail("InvalidTransactionError")
               ELSE done(Committed(a, call.amount, "", 0,
                         IF a.initial_deposit = 0 /\ Deposits(a.transactions) = {}
                         THEN call.amount ELSE a.initial_deposit,
                         Transaction(id, ts, "deposit", None, None, None, call.amount, EmptyDict, call.note)))
          [] call.name = "withdraw" ->
               IF call.amount <= 0 THEN fail("InvalidTransactionError")
               ELSE IF call.amount > a.cash_balance THEN fail("InsufficientFundsError")
               ELSE done(Committed(a, -call.amount, "", 0, a.initial_deposit,
                         Transaction(id, ts, "withdraw", None, None, None, -call.amount, EmptyDict, call.note)))
          [] call.name = "buy" ->
               IF call.quantity <= 0 THEN fail("InvalidTransactionError")
               ELSE IF p = None THEN fail("UnknownSymbolError")
               ELSE IF p[1] < 0 THEN fail("InvalidTransactionError")
               ELSE IF p[1] * call.quantity > a.cash_balance THEN fail("InsufficientFundsError")
               ELSE done(Committed(a, -(p[1] * call.quantity), call.symbol, call.quantity, a.initial_deposit,
                         Transaction(id, ts, "buy", Some(call.symbol), Some(call.quantity), p, -(p[1] * call.quantity),
                                     [x \in {call.symbol} |-> call.quantity], call.note)))
          [] call.name = "sell" ->
               IF call.quantity <= 0 THEN fail("InvalidTransactionError")
               ELSE IF call.quantity > Held(a.holdings, call.symbol) THEN fail("InsufficientSharesError")
               ELSE IF p = None THEN fail("UnknownSymbolError")
               ELSE IF p[1] < 0 THEN fail("InvalidTransactionError")
               ELSE done(Committed(a, p[1] * call.quantity, call.symbol, -call.quantity, a.initial_deposit,
                         Transaction(id, ts, "sell", Some(call.symbol), Some(call.quantity), p, p[1] * call.quantity,
                                     [x \in {call.symbol} |-> -call.quantity], call.note)))

\* The instant at which the call of thread t recorded, 0 if it recorded nothing.
RecordedAt(t) == IF result[t].status = "ok" THEN result[t].tx[1].timestamp ELSE 0

\* C6: no lost update, overdraft or overselling under concurrency.  A call
\* that is about to release the lock leaves the account, and has the outcome,
\* that the same call executed alone gives on the account its predecessors
\* committed (the one it found on acquiring the lock).
C6_Serializable ==
    \A t \in Threads :
        (pc[t] = "release") =>
            /\ result[t].status = Serial(pre[t], op[t], RecordedAt(t)).status
            /\ Acct = Serial(pre[t], op[t], RecordedAt(t)).acct
            /\ (result[t].status = "ok") => (result[t].tx[1] = Last(transactions))

\* Two withdrawals of 150 were issued on a balance of 150: one has
\* succeeded, the other was refused for lack of funds.
C6_Witness ==
    \E t, u \in Threads :
        /\ pc[t] = "done" /\ op[t] = WithdrawCall(150, None) /\ result[t].status = "ok"
        /\ pc[u] = "release" /\ op[u] = WithdrawCall(150, None)
        /\ result[u].status = "InsufficientFundsError"
        /\ Len(transactions) = 2 /\ transactions[1].cash_delta = 150
        /\ cash_balance = 0

RECURSIVE CashAfter(_, _)
\* The sum of cash_delta over the first k records of the log.
CashAfter(txs, k) == IF k = 0 THEN 0 ELSE CashAfter(txs, k - 1) + txs[k].cash_delta

RECURSIVE HeldAfter(_, _, _)
\* The sum of the holdings_delta of symbol s over the first k records.
HeldAfter(txs, k, s) ==
    IF k = 0 THEN 0 ELSE HeldAfter(txs, k - 1, s) + Held(txs[k].holdings_delta, s)

\* The symbols the first k records trade.
TradedSymbols(txs, k) == UNION {DOMAIN txs[i].holdings_delta : i \in 1..k}

\* The baseline once the first k records are committed.
BaselineAfter(txs, k) ==
    IF ctor_arg > 0 THEN ctor_arg
    ELSE IF Deposits(SubSeq(txs, 1, k)) = {} THEN 0
    ELSE txs[CHOOSE i \in Deposits(SubSeq(txs, 1, k)) : \A j \in Deposits(SubSeq(txs, 1, k)) : i <= j].cash_delta

\* The account as it is committed with the first k records of the log.
CommittedAfter(txs, k) ==
    [cash_balance |-> CashAfter(txs, k),
     holdings |-> [s \in {x \in TradedSymbols(txs, k) : HeldAfter(txs, k, x) # 0} |-> HeldAfter(txs, k, s)],
     initial_deposit |-> BaselineAfter(txs, k),
     transactions |-> SubSeq(txs, 1, k)]

\* Between the calls the account is the one its log commits.
CommittedIsAccount == (lock = None) => (Acct = CommittedAfter(transactions, Len(transactions)))

\* C7: what statement() returns is the statement of one committed state of
\* the account: of the account as committed with the records the log had
\* at some moment between the call and its return.
C7_StatementIsSnapshot ==
    (rpc = "done" /\ rloc.status = "ok") =>
        \E k \in rstart..Len(transactions) :
            /\ get_portfolio_value(CommittedAfter(transactions, k).holdings, rloc.price_provider) # None
            /\ rloc = StatementOf(CommittedAfter(transactions, k), rloc.price_provider)

\* The baseline the log and the constructor's argument determine.
ExpectedBaseline == BaselineAfter(transactions, Len(transactions))

\* A thread has recorded the account's first deposit and has not yet
\* reached line 98.
BaselinePending ==
    /\ ctor_arg <= 0
    /\ Cardinality(Deposits(transactions)) = 1
    /\ \E t \in Threads : pc[t] = "deposit_baseline"

C9_Deposit ==
    \A t \in Threads :
        (op[t].name = "deposit" /\ op[t].amount > 0 /\ pc[t] \in {"release", "done"}) =>
            /\ result[t].status = "ok"
            /\ result[t].tx[1].type = "deposit"
            /\ result[t].tx[1].cash_delta = op[t].amount
            /\ (pc[t] = "release") =>
                  /\ cash_balance = pre[t].cash_balance + op[t].amount
                  /\ Len(transactions) = Len(pre[t].transactions) + 1
                  /\ Last(transactions) = result[t].tx[1]
                  /\ holdings = pre[t].holdings

\* A deposit is complete on an account that held cash and shares.
C9_Witness ==
    \E t \in Threads :
        /\ pc[t] = "release" /\ op[t].name = "deposit"
        /\ pre[t].cash_balance > 0 /\ pre[t].holdings # EmptyDict
        /\ cash_balance = pre[t].cash_balance + 150

\* C10: withdraw(amount) with amount > 0 succeeds iff amount <= cash_balance
\* and fails with InsufficientFundsError otherwise; on success cash_balance
\* falls by amount, holdings are unchanged and one withdraw record with
\* cash_delta = -amount is appended.
C10_Withdraw ==
    \A t \in Threads :
        (op[t].name = "withdraw" /\ op[t].amount > 0 /\ pc[t] \in {"release", "done"}) =>
            /\ result[t].status \in {"ok", "InsufficientFundsError"}
            /\ (pc[t] = "release") =>
                  /\ (result[t].status = "ok") <=> (op[t].amount <= pre[t].cash_balance)
                  /\ (result[t].status = "ok") =>
                        /\ cash_balance = pre[t].cash_balance - op[t].amount
                        /\ holdings = pre[t].holdings
                        /\ Len(transactions) = Len(pre[t].transactions) + 1
                        /\ SubSeq(transactions, 1, Len(pre[t].transactions)) = pre[t].transactions
                        /\ Last(transactions) = result[t].tx[1]
                        /\ result[t].tx[1].type = "withdraw"
                        /\ result[t].tx[1].cash_delta = -op[t].amount

\* A withdrawal of the whole balance has succeeded and left 0.
C10_Witness ==
    \E t \in Threads :
        /\ pc[t] = "release" /\ op[t].name = "withdraw" /\ result[t].status = "ok"
        /\ pre[t].cash_balance = op[t].amount
        /\ cash_balance = 0

\* C11: buy(symbol, quantity, price) with quantity > 0 and a resolved price
\* p >= 0 succeeds iff p * quantity <= cash_balance and otherwise raises
\* InsufficientFundsError; on success cash_balance falls by p * quantity, the
\* holding of symbol grows by quantity (the entry is created if absent), no
\* other holding changes, and one buy record with cash_delta = -(p * quantity)
\* and holdings_delta = {symbol: quantity} is appended.
C11_Buy ==
    \A t \in Threads :
        LET p == resolve_price(op[t].price, op[t].symbol)
            cost == p[1] * op[t].quantity
            s == op[t].symbol
        IN  (/\ pc[t] = "release" /\ op[t].name = "buy" /\ op[t].quantity > 0
             /\ p # None /\ p[1] >= 0) =>
                /\ result[t].status \in {"ok", "InsufficientFundsError"}
                /\ (result[t].status = "ok") <=> (cost <= pre[t].cash_balance)
                /\ (result[t].status = "ok") =>
                      /\ cash_balance = pre[t].cash_balance - cost
                      /\ DOMAIN holdings = (DOMAIN pre[t].holdings) \cup {s}
                      /\ holdings[s] = Held(pre[t].holdings, s) + op[t].quantity
                      /\ \A x \in (DOMAIN holdings) \ {s} : holdings[x] = pre[t].holdings[x]
                      /\ transactions = Append(pre[t].transactions, result[t].tx[1])
                      /\ result[t].tx[1].type = "buy"
                      /\ result[t].tx[1].cash_delta = -cost
                      /\ result[t].tx[1].holdings_delta = [x \in {s} |-> op[t].quantity]

\* A buy that costs money has created the entry of its symbol next to the
\* holding of another symbol.
C11_Witness ==
    \E t \in Threads :
        /\ pc[t] = "release" /\ op[t].name = "buy" /\ result[t].status = "ok"
        /\ pre[t].holdings # EmptyDict
        /\ op[t].symbol \notin DOMAIN pre[t].holdings
        /\ cash_balance < pre[t].cash_balance

\* C12: sell(symbol, quantity, price) with 0 < quantity <= the holding of
\* symbol and a resolved price p >= 0 succeeds: cash_balance grows by
\* p * quantity, the holding of symbol falls by quantity and its entry is
\* removed at zero, no other holding changes, and one sell record with
\* cash_delta = p * quantity and holdings_delta = {symbol: -quantity} is
\* appended.
C12_Sell ==
    \A t \in Threads :
        LET p == resolve_price(op[t].price, op[t].symbol)
            proceeds == p[1] * op[t].quantity
            s == op[t].symbol
        IN  (/\ pc[t] = "release" /\ op[t].name = "sell" /\ op[t].quantity > 0
             /\ op[t].quantity <= Held(pre[t].holdings, s)
             /\ p # None /\ p[1] >= 0) =>
                /\ result[t].status = "ok"
                /\ cash_balance = pre[t].cash_balance + proceeds
                /\ Held(holdings, s) = pre[t].holdings[s] - op[t].quantity
                /\ (s \in DOMAIN holdings) <=> (pre[t].holdings[s] > op[t].quantity)
                /\ (DOMAIN holdings) \ {s} = (DOMAIN pre[t].holdings) \ {s}
                /\ \A x \in (DOMAIN holdings) \ {s} : holdings[x] = pre[t].holdings[x]
                /\ transactions = Append(pre[t].transactions, result[t].tx[1])
                /\ result[t].tx[1].type = "sell"
                /\ result[t].tx[1].cash_delta = proceeds
                /\ result[t].tx[1].holdings_delta = [x \in {s} |-> -op[t].quantity]

\* A sell of a part of a holding has succeeded: the entry remains.
C12_Witness ==
    \E t \in Threads :
        /\ pc[t] = "release" /\ op[t].name = "sell" /\ result[t].status = "ok"
        /\ pre[t].holdings[op[t].symbol] > op[t].quantity
        /\ op[t].symbol \in DOMAIN holdings
        /\ cash_balance > pre[t].cash_balance

\* C13: sell(symbol, quantity) with quantity > 0 and quantity greater than
\* the holding of symbol (0 when the symbol is not held) raises
\* InsufficientSharesError and leaves the account as it was, also when the
\* oracle does not know the symbol or the supplied price is negative.
C13_InsufficientShares ==
    \A t \in Threads :
        (/\ pc[t] = "release" /\ op[t].name = "sell" /\ op[t].quantity > 0
         /\ op[t].quantity > Held(pre[t].holdings, op[t].symbol)) =>
            /\ result[t].status = "InsufficientSharesError"
            /\ Acct = pre[t]

\* A sell at a negative price and a sell of a symbol the oracle does not
\* know were both refused for lack of shares.
C13_Witness ==
    \E t, u \in Threads :
        /\ pc[t] = "done" /\ op[t] = SellCall("AAPL", 1, Some(-50), None)
        /\ result[t].status = "InsufficientSharesError"
        /\ pc[u] = "release" /\ op[u] = SellCall("XXX", 1, None, None)
        /\ result[u].status = "InsufficientSharesError"

\* C14: the default oracle knows exactly AAPL, TSLA and GOOGL; a buy with
\* quantity > 0 and no supplied price of any other symbol raises
\* UnknownSymbolError, whatever the cash balance, and leaves cash_balance,
\* holdings and transactions as they were.
C14_UnknownSymbol ==
    /\ \A s \in Symbols : (get_share_price(s) # None) <=> (s \in {"AAPL", "TSLA", "GOOGL"})
    /\ \A t \in Threads :
          (/\ pc[t] = "release" /\ op[t].name = "buy" /\ op[t].quantity > 0
           /\ op[t].price = None /\ op[t].symbol \notin {"AAPL", "TSLA", "GOOGL"}) =>
              /\ result[t].status = "UnknownSymbolError"
              /\ Acct = pre[t]

\* A buy of an unknown symbol was refused on an account with cash.
C14_Witness ==
    \E t \in Threads :
        /\ pc[t] = "release" /\ op[t] = BuyCall("XXX", 1, None, None)
        /\ result[t].status = "UnknownSymbolError"
        /\ cash_balance > 0

\* The arguments of the call are malformed: an amount or a quantity <= 0.
Malformed(call) ==
    \/ call.name \in {"deposit", "withdraw"} /\ call.amount <= 0
    \/ call.name \in {"buy", "sell"} /\ call.quantity <= 0

\* C15: deposit and withdraw with amount <= 0 and buy and sell with
\* quantity <= 0 raise InvalidTransactionError at once, in every state and
\* whatever else is wrong with the call, and change nothing of the account.
C15_InvalidArguments ==
    [][\A t \in Threads :
          (/\ Malformed(op'[t])
           /\ <<pc[t], op[t], result[t]>> # <<pc'[t], op'[t], result'[t]>>)
              => /\ pc'[t] = "done"
                 /\ result'[t] = Raised("InvalidTransactionError")
                 /\ Acct' = Acct
      ]_vars

\* A sell with quantity 0 of an unknown symbol that is not held, at a
\* negative price, was refused as invalid on an account with cash and shares.
C15_Witness ==
    \E t \in Threads :
        /\ pc[t] = "done" /\ op[t] = SellCall("XXX", 0, Some(-50), None)
        /\ result[t].status = "InvalidTransactionError"
        /\ cash_balance > 0 /\ holdings # EmptyDict

\* No method of the account has been called yet.
Fresh == \A t \in Threads : pc[t] = "idle" /\ op[t] = NoOp

\* C16: construction raises iff initial_deposit < 0.  A new account has no
\* holdings; with initial_deposit > 0 it has one record (a deposit with note
\* "Initial deposit", cash_delta = initial_deposit and no symbol), that cash
\* balance and that baseline; with initial_deposit = 0 it has no record, cash
\* balance 0 and baseline 0.
C16_Construction ==
    /\ constructed <=> ~(ctor_arg < 0)
    /\ (Fresh /\ constructed) =>
          /\ holdings = EmptyDict
          /\ (ctor_arg > 0) =>
                /\ Len(transactions) = 1
                /\ transactions[1].type = "deposit"
                /\ transactions[1].note = Some("Initial deposit")
                /\ transactions[1].cash_delta = ctor_arg
                /\ transactions[1].symbol = None
                /\ cash_balance = ctor_arg
                /\ initial_deposit = ctor_arg
          /\ (ctor_arg = 0) =>
                /\ transactions = <<>>
                /\ cash_balance = 0
                /\ initial_deposit = 0

\* An account was constructed with an initial deposit of 300.
C16_Witness ==
    /\ Fresh /\ constructed /\ ctor_arg = 300
    /\ Len(transactions) = 1 /\ cash_balance = 300

\* The price the oracle in use gives for the symbol: the supplied provider's
\* if one is supplied, else the default oracle's; None where it knows none.
OraclePrice(price_provider, s) ==
    IF price_provider = None THEN get_share_price(s) ELSE fake_provider(s)

RECURSIVE Worth(_, _, _)
\* The sum over the symbols of S of the oracle's price times the quantity held.
Worth(h, price_provider, S) ==
    IF S = {} THEN 0
    ELSE LET s == CHOOSE x \in S : \A y \in S : Held(h, x) >= Held(h, y) IN
         Worth(h, price_provider, S \ {s}) + OraclePrice(price_provider, s)[1] * h[s]

\* The client's variables changed and the query it holds is the named one.
Queried(names) == client_vars' # client_vars /\ ~cres'.mutated /\ ccall'.name \in names

\* C17: the valuation queries change nothing of the account, whether they
\* return or raise.  They raise UnknownSymbolError iff the oracle in use knows
\* no price for a held symbol; otherwise get_portfolio_value returns the sum
\* over the held symbols of price * quantity, get_total_balance returns
\* cash_balance + that sum and get_profit_loss that total - initial_deposit.
C17_Valuation ==
    [][Queried({"get_portfolio_value", "get_total_balance", "get_profit_loss"}) =>
          LET price_provider == ccall'.price_provider
              unknown == \E s \in DOMAIN holdings : OraclePrice(price_provider, s) = None
              worth == Worth(holdings, price_provider, DOMAIN holdings)
          IN  /\ Acct' = Acct
              /\ cres'.status = IF unknown THEN "UnknownSymbolError" ELSE "ok"
              /\ (~unknown /\ ccall'.name = "get_portfolio_value") => cres'.number = worth
              /\ (~unknown /\ ccall'.name = "get_total_balance") => cres'.number = cash_balance + worth
              /\ (~unknown /\ ccall'.name = "get_profit_loss") =>
                    cres'.number = (cash_balance + worth) - initial_deposit
      ]_vars

\* get_profit_loss with the supplied provider has returned a profit on an
\* account that holds shares.
C17_Witness ==
    /\ ccall.name = "get_profit_loss" /\ ccall.price_provider # None
    /\ cres.status = "ok" /\ cres.number > 0
    /\ cacct = Acct /\ holdings # EmptyDict /\ cash_balance > 0

C19_HoldingsCopy ==
    [][/\ (cres'.mutated /\ cres' # cres) =>
             /\ Acct' = Acct
             /\ get_holdings(holdings') = get_holdings(holdings)
             /\ \A price_provider \in Providers :
                   /\ get_portfolio_value(holdings', price_provider) = get_portfolio_value(holdings, price_provider)
                   /\ (get_portfolio_value(holdings, price_provider) # None) =>
                         StatementOf(Acct', price_provider) = StatementOf(Acct, price_provider)
       /\ Queried({"get_holdings"}) => (cres'.mapping = holdings /\ holdings' = holdings)
      ]_vars

\* The client has changed an entry of the dict it was given, and the
\* account's entry is as it was.
C19_Witness ==
    /\ cres.mutated /\ cacct = Acct
    /\ "AAPL" \in DOMAIN holdings /\ "AAPL" \in DOMAIN cres.mapping
    /\ cres.mapping["AAPL"] # holdings["AAPL"]

\* C20: list_transactions raises InvalidTransactionError when both bounds are
\* given and start > end; otherwise it returns, in the order of the log,
\* exactly the records whose timestamp is >= start and <= end (for each bound
\* given), whose type is type_filter (if given) and whose symbol is
\* symbol_filter (if given), so no deposit or withdraw record under a symbol
\* filter; the log is unchanged.
C20_ListTransactions ==
    [][Queried({"list_transactions"}) =>
          LET q == ccall'
              malformed == q.start # None /\ q.end # None /\ q.start[1] > q.end[1]
              Matches(tx) ==
                  /\ (q.start # None) => (tx.timestamp >= q.start[1])
                  /\ (q.end # None) => (tx.timestamp <= q.end[1])
                  /\ (q.type_filter # None) => (tx.type = q.type_filter[1])
                  /\ (q.symbol_filter # None) => (tx.symbol = q.symbol_filter)
          IN  /\ Acct' = Acct
              /\ malformed => cres'.status = "InvalidTransactionError"
              /\ ~malformed =>
                    /\ cres'.status = "ok"
                    /\ cres'.list = SelectSeq(transactions, Matches)
                    /\ (q.symbol_filter # None) =>
                          \A i \in 1..Len(cres'.list) : cres'.list[i].type \in {"buy", "sell"}
      ]_vars

\* A range that starts and ends at the instant of the later records has
\* returned those and left out the earlier ones.
C20_Witness ==
    /\ ccall.name = "list_transactions"
    /\ ccall.start = Some(1) /\ ccall.end = Some(1)
    /\ cres.status = "ok" /\ Len(cres.list) >= 1
    /\ Len(cres.list) < Len(cacct.transactions)

\* C21: every record of the log has the shape of its type.  A deposit or
\* withdraw record has no symbol, quantity or price and an empty
\* holdings_delta; a buy or sell record has all three and a holdings_delta
\* of exactly its symbol, +quantity for buy and -quantity for sell;
\* cash_delta is > 0 for every deposit and sell record and < 0 for every
\* withdraw and buy record.
C21_RecordShape ==
    \A i \in 1..Len(transactions) :
        LET tx == transactions[i] IN
        /\ (tx.type \in {"deposit", "withdraw"}) =>
              /\ tx.symbol = None /\ tx.quantity = None /\ tx.price = None
              /\ tx.holdings_delta = EmptyDict
        /\ (tx.type \in {"buy", "sell"}) =>
              /\ tx.symbol # None /\ tx.quantity # None /\ tx.price # None
              /\ DOMAIN tx.holdings_delta = {tx.symbol[1]}
              /\ tx.holdings_delta[tx.symbol[1]] =
                    IF tx.type = "buy" THEN tx.quantity[1] ELSE -tx.quantity[1]
        /\ (tx.type \in {"deposit", "sell"}) => tx.cash_delta > 0
        /\ (tx.type \in {"withdraw", "buy"}) => tx.cash_delta < 0

\* C22: the timestamps of the log are non-decreasing along it, in every
\* reachable state and under every interleaving of the callers: a record is
\* stamped and appended in one critical section, and the clock never goes back.
C22_Chronological ==
    \A i, j \in 1..Len(transactions) :
        (i < j) => (transactions[i].timestamp <= transactions[j].timestamp)

\* Two threads have each appended a record, the second at a later instant
\* than the first.
C22_Witness ==
    /\ \A t \in Threads : pc[t] = "done" /\ result[t].status = "ok"
    /\ Len(transactions) >= 2
    /\ transactions[Len(transactions) - 1].timestamp < Last(transactions).timestamp

\* Thread t executes the first statement of its method in this step: the
\* check of the amount (lines 84, 102) or of the quantity (lines 119, 143).
ChecksArguments(t) ==
    /\ pc[t] \in {"idle", "done"}
    /\ <<pc[t], op[t], result[t]>> # <<pc'[t], op'[t], result'[t]>>

\* Thread t executes a check of funds, shares or price in this step.
ChecksAccount(t) ==
    /\ pc[t] \in {"withdraw", "buy", "buy_funds", "sell", "sell_price"}
    /\ pc'[t] # pc[t]

\* C23: the lock protocol.  A mutating operation checks each of its
\* preconditions, the positivity of its amount or quantity included, holding
\* the lock; and it releases the lock after a success only once the balances
\* are updated and its record is appended.
C23_LockBeforeValidation ==
    [][\A t \in Threads :
          /\ (ChecksArguments(t) \/ ChecksAccount(t)) => (lock = Some(t))
          /\ (lock = Some(t) /\ lock' = None /\ result[t].status = "ok") =>
                /\ Acct = Serial(pre[t], op[t], RecordedAt(t)).acct
                /\ Last(transactions) = result[t].tx[1]
      ]_vars

\* C24: the ledger's accounting identity.  While no thread is inside its
\* with-block, cash_balance is the sum of cash_delta over the log and the
\* quantity held of every symbol (0 without an entry) is the sum of that
\* symbol's holdings_delta over the log.
C24_LedgerIdentity ==
    (\A t \in Threads : ~InCS(t)) =>
        /\ cash_balance = CashAfter(transactions, Len(transactions))
        /\ \A s \in Symbols \cup (DOMAIN holdings) \cup TradedSymbols(transactions, Len(transactions)) :
              Held(holdings, s) = HeldAfter(transactions, Len(transactions), s)

\* A deposit, a buy and a sell of a part are in the log, no call is in
\* progress, and the account holds cash and shares.
C24_Witness ==
    /\ \A t \in Threads : pc[t] = "done"
    /\ Len(transactions) = 3 /\ Last(transactions).type = "sell"
    /\ cash_balance > 0 /\ holdings # EmptyDict

====
